---- MODULE Spec2Model ----
(***************************************************************************)
(* codebreaker (src/main.rs): a Mastermind-style terminal game.            *)
(*                                                                         *)
(* The model follows main -> Game::new -> Game::run.  Colors are the       *)
(* 0-based indices of the source; TLA+ sequences are 1-based, so color c   *)
(* of CODE_COLORS is CODE_COLORS[c + 1].                                   *)
(*                                                                         *)
(* Terminal I/O errors (the `?` on terminal.draw and setup_terminal) are   *)
(* faults of the environment and are not modelled; rx.recv() cannot fail   *)
(* because the spawned thread never drops its sender.                      *)
(***************************************************************************)
EXTENDS Integers, Sequences, FiniteSets, TLC

\* Bound on the configurations explored: colors + guesses + holes.
MaxSize == 6
\* Bounds on the inputs of the scorer's property test: length and largest color.
MaxLen == 3
MaxValue == 2
\* Bound on the events the producer thread reads in a session, where the
\* channel is followed event by event.
MaxIssued == 4

(***************************************************************************)
(* Statics, src/main.rs:17-30                                              *)
(***************************************************************************)
CIRCLE == "CIRCLE"
DOT == "DOT"
CODE_COLORS == <<"Blue", "Red", "Green", "Yellow", "Magenta", "White", "Cyan">>
BULL_COLOR == "Red"
COW_COLOR == "White"

\* Text::styled(s, Style::default().fg(c)) and Text::raw(s)
Styled(s, c) == <<s, c>>
Raw(s) == <<s, "default">>

VARIABLES
    opt,            \* Opt: colors, guesses, holes, no_duplicate
    pc,             \* "main", "error", "new", "run", "recv" (blocked in rx.recv()),
                    \* "exited" (quit key), "finished" (game decided); for the
                    \* property test "test", "discarded", "passed", "panicked"
    solution,       \* Game.solution
    guesses,        \* Game.guesses
    hints,          \* Game.hints
    current_guess,  \* Game.current_guess
    event,          \* the event last returned by rx.recv() in Game::run
    frame,          \* what the last terminal.draw put on the screen
    hint_case,      \* inputs and outputs of the quickcheck property tests::hint
    chan,           \* the events sent on tx and not yet received from rx
    issued,         \* history: the events event::read() returned, in order
    applied         \* history: the events rx.recv() returned, in order

vars == <<opt, pc, solution, guesses, hints, current_guess, event, frame, hint_case,
          chan, issued, applied>>

\* The channel of Game::run and its two histories
net == <<chan, issued, applied>>

game == <<solution, guesses, hints, current_guess>>

Min(a, b) == IF a <= b THEN a ELSE b

Colors(n) == 0 .. (n - 1)

\* All sequences of length len over the colors [0, n)
Codes(n, len) == [1 .. len -> Colors(n)]

(***************************************************************************)
(* Opt, src/main.rs:41-57.  The three numbers are NonZeroUsize.            *)
(***************************************************************************)
Opts ==
    { o \in [colors : 1 .. (Len(CODE_COLORS) + 1), guesses : 1 .. MaxSize,
             holes : 1 .. MaxSize, no_duplicate : BOOLEAN] :
        \/ o.colors + o.guesses + o.holes <= MaxSize
        \/ o.colors > Len(CODE_COLORS) }

NoOpt == [colors |-> 1, guesses |-> 1, holes |-> 1, no_duplicate |-> FALSE]

(***************************************************************************)
(* Hint, src/main.rs:81-87                                                 *)
(***************************************************************************)
Hint(b, c) == [bulls |-> b, cows |-> c]

empty_hint == Hint(0, 0)
empty_guess == <<>>

(***************************************************************************)
(* calc_hint, src/main.rs:387-406                                          *)
(***************************************************************************)
ZeroCounts(num_colors) == [c \in Colors(num_colors) |-> 0]

RECURSIVE calc_hint_loop(_, _, _, _)
\* for (guess, solution) in guess.0.iter().zip(solution.0.iter()) { .. }
\* zip stops at the shorter of the two sequences.
calc_hint_loop(guess, sol, i, acc) ==
    IF i > Min(Len(guess), Len(sol))
    THEN acc
    ELSE IF guess[i] = sol[i]
         THEN calc_hint_loop(guess, sol, i + 1, [acc EXCEPT !.bulls = @ + 1])
         ELSE calc_hint_loop(guess, sol, i + 1,
                  [acc EXCEPT !.guess_counts[guess[i]] = @ + 1,
                              !.solution_counts[sol[i]] = @ + 1])

RECURSIVE calc_hint_fold(_, _, _, _)
\* .fold(0, |sum, (a, b)| sum + a.min(b)) over the zipped tables
calc_hint_fold(guess_counts, solution_counts, c, num_colors) ==
    IF c >= num_colors
    THEN 0
    ELSE Min(guess_counts[c], solution_counts[c])
         + calc_hint_fold(guess_counts, solution_counts, c + 1, num_colors)

RECURSIVE calc_hint_loop_all(_, _, _, _)
\* A scorer that forgets the `else`: bulls are also entered in the tables.
calc_hint_loop_all(guess, sol, i, acc) ==
    IF i > Min(Len(guess), Len(sol))
    THEN acc
    ELSE calc_hint_loop_all(guess, sol, i + 1,
             [acc EXCEPT !.bulls = IF guess[i] = sol[i] THEN @ + 1 ELSE @,
                         !.guess_counts[guess[i]] = @ + 1,
                         !.solution_counts[sol[i]] = @ + 1])

calc_hint_no_else(guess, sol, num_colors) ==
    LET acc == calc_hint_loop_all(guess, sol, 1,
                   [bulls |-> 0, guess_counts |-> ZeroCounts(num_colors),
                    solution_counts |-> ZeroCounts(num_colors)])
    IN  Hint(acc.bulls,
             calc_hint_fold(acc.guess_counts, acc.solution_counts, 0, num_colors))

RECURSIVE calc_hint_fold_max(_, _, _, _)
\* A fold that takes the larger of the two counts
calc_hint_fold_max(guess_counts, solution_counts, c, num_colors) ==
    IF c >= num_colors
    THEN 0
    ELSE (IF guess_counts[c] >= solution_counts[c] THEN guess_counts[c]
                                                    ELSE solution_counts[c])
         + calc_hint_fold_max(guess_counts, solution_counts, c + 1, num_colors)

calc_hint_max(guess, sol, num_colors) ==
    LET acc == calc_hint_loop(guess, sol, 1,
                   [bulls |-> 0, guess_counts |-> ZeroCounts(num_colors),
                    solution_counts |-> ZeroCounts(num_colors)])
    IN  Hint(acc.bulls,
             calc_hint_fold_max(acc.guess_counts, acc.solution_counts, 0, num_colors))

\* A scorer whose fold starts at the second color
calc_hint_skip_first(guess, sol, num_colors) ==
    LET acc == calc_hint_loop(guess, sol, 1,
                   [bulls |-> 0, guess_counts |-> ZeroCounts(num_colors),
                    solution_counts |-> ZeroCounts(num_colors)])
    IN  Hint(acc.bulls,
             calc_hint_fold(acc.guess_counts, acc.solution_counts, 1, num_colors))

\* A scorer that fills the two fields of Hint the wrong way round
calc_hint_swapped(guess, sol, num_colors) ==
    LET acc == calc_hint_loop(guess, sol, 1,
                   [bulls |-> 0, guess_counts |-> ZeroCounts(num_colors),
                    solution_counts |-> ZeroCounts(num_colors)])
    IN  Hint(calc_hint_fold(acc.guess_counts, acc.solution_counts, 0, num_colors),
             acc.bulls)

calc_hint(guess, sol, num_colors) ==
    LET acc == calc_hint_loop(guess, sol, 1,
                   [bulls |-> 0, guess_counts |-> ZeroCounts(num_colors),
                    solution_counts |-> ZeroCounts(num_colors)])
    IN  Hint(acc.bulls,
             calc_hint_fold(acc.guess_counts, acc.solution_counts, 0, num_colors))

(***************************************************************************)
(* tests::gnome_mastermind_checkscores, src/main.rs:418-444                *)
(***************************************************************************)
RECURSIVE gnome_bulls(_, _, _)
\* first loop: for i in 0..guess.len(), lines 424-430
gnome_bulls(st, sol, i) ==
    IF i > Len(st.guess)
    THEN st
    ELSE IF st.guess[i] = sol[i]
         THEN gnome_bulls([st EXCEPT !.bulls = @ + 1, !.tmp[i] = -1, !.guess[i] = -2],
                          sol, i + 1)
         ELSE gnome_bulls(st, sol, i + 1)

RECURSIVE gnome_cows(_, _)
\* second, nested loop: lines 433-441; k enumerates (i, j) in row-major order
gnome_cows(st, k) ==
    LET n == Len(st.guess)
        i == (k \div n) + 1
        j == (k % n) + 1
    IN  IF n = 0 \/ k >= n * n
        THEN st
        ELSE IF st.guess[i] = st.tmp[j]
             THEN gnome_cows([st EXCEPT !.cows = @ + 1, !.guess[i] = -2, !.tmp[j] = -1],
                             k + 1)
             ELSE gnome_cows(st, k + 1)

gnome_mastermind_checkscores(guess, sol) ==
    LET st0 == [guess |-> guess, tmp |-> sol, bulls |-> 0, cows |-> 0]
        st  == gnome_cows(gnome_bulls(st0, sol, 1), 0)
    IN  Hint(st.bulls, st.cows)

(***************************************************************************)
(* Game::new, src/main.rs:105-125                                          *)
(***************************************************************************)
RECURSIVE choose_multiple_from(_, _, _)
\* (0..colors).choose_multiple(&mut rng, amount), line 109.  The rand crate
\* fills a reservoir with the first `amount` items in iteration order, then
\* for the item at index i >= amount draws k uniformly in [0, i] and
\* overwrites slot k when k < amount.  This is the set of possible results.
choose_multiple_from(reservoir, i, n) ==
    IF i >= n
    THEN {reservoir}
    ELSE UNION { choose_multiple_from(
                     IF k < Len(reservoir) THEN [reservoir EXCEPT ![k + 1] = i]
                                           ELSE reservoir,
                     i + 1, n) : k \in 0 .. i }

choose_multiple(n, amount) ==
    choose_multiple_from([j \in 1 .. Min(amount, n) |-> j - 1], Min(amount, n), n)

\* rng.sample_iter(Uniform::new(0, colors)).take(holes).collect(), lines 114-115
sample_iter(n, amount) == Codes(n, amount)

\* A generator that always samples with replacement
new_solutions_with_replacement(o) == sample_iter(o.colors, o.holes)

new_solutions(o) ==
    IF o.no_duplicate
    THEN choose_multiple(o.colors, o.holes)
    ELSE sample_iter(o.colors, o.holes)

(***************************************************************************)
(* Game::status, src/main.rs:183-195                                       *)
(***************************************************************************)
status_lost_first(o, gs, hs) ==
    IF Len(gs) >= o.guesses
    THEN "Lost"
    ELSE IF hs # <<>> /\ hs[Len(hs)].bulls = o.holes THEN "Won" ELSE "Playing"

\* A status that is Lost only after more guesses than allowed
status_off_by_one(o, gs, hs) ==
    IF hs # <<>> /\ hs[Len(hs)].bulls = o.holes
    THEN "Won"
    ELSE IF Len(gs) > o.guesses THEN "Lost" ELSE "Playing"

status_of(o, gs, hs) ==
    IF hs # <<>> /\ hs[Len(hs)].bulls = o.holes
    THEN "Won"
    ELSE IF Len(gs) >= o.guesses THEN "Lost" ELSE "Playing"

\* A status that counts a full current guess as a submitted one
status_with_current ==
    status_of(opt,
              IF Len(current_guess) = opt.holes
              THEN Append(guesses, current_guess) ELSE guesses,
              hints)

status == status_of(opt, guesses, hints)

(***************************************************************************)
(* Game::draw_row, src/main.rs:305-338                                     *)
(***************************************************************************)
\* .intersperse(Text::raw(" ")) of a sequence of cells
intersperse(cells) ==
    [i \in 1 .. (IF Len(cells) = 0 THEN 0 ELSE 2 * Len(cells) - 1) |->
        IF i % 2 = 1 THEN cells[(i + 1) \div 2] ELSE Raw(" ")]

\* guess colors, then dots, cut to `holes` cells
code_cells(o, guess) ==
    intersperse([i \in 1 .. o.holes |->
        IF i <= Len(guess) THEN Styled(CIRCLE, CODE_COLORS[guess[i] + 1]) ELSE Raw(DOT)])

\* bulls, then cows, then dots, cut to `holes` cells
key_cells(o, hint) ==
    [i \in 1 .. o.holes |->
        IF i <= hint.bulls THEN Styled(CIRCLE, BULL_COLOR)
        ELSE IF i <= hint.bulls + hint.cows THEN Styled(CIRCLE, COW_COLOR)
        ELSE Raw(DOT)]

NoHint == [bulls |-> -1, cows |-> -1]

draw_row(o, guess, hint) ==
    [code |-> code_cells(o, guess),
     keys |-> IF hint = NoHint THEN <<>> ELSE key_cells(o, hint)]

(***************************************************************************)
(* Game::draw_board, src/main.rs:253-303, and Game::draw, 197-251          *)
(***************************************************************************)
\* lines 289-295: the row above the board
solution_row_always(o, sol, st) == draw_row(o, sol, NoHint)

solution_row(o, sol, st) ==
    draw_row(o, IF st = "Playing" THEN empty_guess ELSE sol, NoHint)

\* lines 271-300: guesses, then current_guess, then empty rows, cut to
\* opt.guesses rows, zipped with hints padded by empty hints.  Row 1 is the
\* bottom row of the board.
board_rows(o, gs, hs, cur) ==
    LET all == gs \o <<cur>>
    IN  [i \in 1 .. o.guesses |->
            draw_row(o,
                     IF i <= Len(all) THEN all[i] ELSE empty_guess,
                     IF i <= Len(hs) THEN hs[i] ELSE empty_hint)]

\* lines 228-250: chunks[3] and chunks[4]
message(o, st, cur) ==
    CASE st = "Won"  -> "You won!"
      [] st = "Lost" -> "You lost"
      [] OTHER       -> IF Len(cur) < o.holes
                        THEN "Press number keys to select colors"
                        ELSE "Press enter to make a guess"

undo_message(o, st, cur) ==
    IF st = "Playing" /\ cur # <<>> THEN "Press backspace to undo" ELSE ""

\* The two caption lines (chunks[0], chunks[1]) and draw_legend show the same
\* text in every frame of a session and are left out of the frame.
draw(o, sol, gs, hs, cur) ==
    LET st == status_of(o, gs, hs)
    IN  [solution_row |-> solution_row(o, sol, st),
         rows         |-> board_rows(o, gs, hs, cur),
         message      |-> message(o, st, cur),
         undo         |-> undo_message(o, st, cur)]

NoFrame == [solution_row |-> draw_row(NoOpt, <<>>, NoHint), rows |-> <<>>,
            message |-> "", undo |-> ""]

(***************************************************************************)
(* crossterm events as Game::run matches them, src/main.rs:142-157         *)
(***************************************************************************)
Key(mods, code, ch) == [kind |-> "Key", modifiers |-> mods, code |-> code, ch |-> ch]
Resize == [kind |-> "Resize", modifiers |-> "NONE", code |-> "", ch |-> ""]
NoEvent == [kind |-> "None", modifiers |-> "NONE", code |-> "", ch |-> ""]

Digits == <<"0", "1", "2", "3", "4", "5", "6", "7", "8", "9">>

\* The events the producer thread forwards: the digits '0' .. MaxSize - 1
\* (one more than any number of colors explored), the command keys, the
\* letters c and z without CONTROL (bound to nothing), a digit with
\* CONTROL, and an event that is no key event.
Events ==
    {Key("NONE", code, "") : code \in {"Esc", "Backspace", "Enter"}}
    \cup {Key("NONE", "Char", Digits[i]) : i \in 1 .. Min(MaxSize, Len(Digits))}
    \cup {Key("NONE", "Char", c) : c \in {"q", "c", "z", " "}}
    \cup {Key("CONTROL", "Char", c) : c \in {"c", "z", "1"}}
    \cup {Resize}

\* char::to_digit(10): Some(d) for an ASCII decimal digit, None (-1) otherwise
to_digit(c) ==
    IF \E i \in 1 .. Len(Digits) : Digits[i] = c
    THEN (CHOOSE i \in 1 .. Len(Digits) : Digits[i] = c) - 1
    ELSE -1

(***************************************************************************)
(* parse_color_number, src/main.rs:378-385.  None is -1.                   *)
(***************************************************************************)
parse_color_number_no_shift(c) ==
    IF to_digit(c) # -1 /\ to_digit(c) # 0 THEN to_digit(c) ELSE -1

parse_color_number(c) ==
    IF to_digit(c) # -1 /\ to_digit(c) # 0 THEN to_digit(c) - 1 ELSE -1

(***************************************************************************)
(* The match of Game::run, src/main.rs:143-175.  Arms are tried in order.  *)
(***************************************************************************)
\* lines 144-146
quit_arm(e) ==
    \/ e.code = "Esc"
    \/ e.modifiers = "CONTROL" /\ e.code = "Char" /\ e.ch = "c"
    \/ e.code = "Char" /\ e.ch = "q"

\* line 147: (_, KeyCode::Char(c)) if current_guess.len() < holes
char_arm(e, cur, o) == e.code = "Char" /\ Len(cur) < o.holes

\* line 149
color_allowed_inclusive(number, o) == number <= o.colors

color_allowed(number, o) == number < o.colors

\* lines 148-152
push_color(e, cur, o) ==
    LET number == parse_color_number(e.ch)
    IN  IF number # -1 /\ color_allowed(number, o) THEN Append(cur, number) ELSE cur

\* line 154
undo_arm(e) ==
    \/ e.code = "Backspace"
    \/ e.modifiers = "CONTROL" /\ e.code = "Char" /\ e.ch = "z"

\* line 155: Vec::pop, nothing on an empty vector
pop(cur) == IF cur = <<>> THEN cur ELSE SubSeq(cur, 1, Len(cur) - 1)

\* lines 157-158
submit_arm_unguarded(e, cur, o) ==
    e.code = "Enter" \/ (e.code = "Char" /\ e.ch = " ")

submit_arm(e, cur, o) ==
    /\ e.code = "Enter" \/ (e.code = "Char" /\ e.ch = " ")
    /\ Len(cur) = o.holes

\* lines 160-161
submit_hint_after_take(cur, sol, o) == calc_hint(empty_guess, sol, o.colors)

submit_hint(cur, sol, o) == calc_hint(cur, sol, o.colors)

\* line 162: std::mem::take leaves Guess::default() behind
taken_keeps(cur) == cur

taken(cur) == empty_guess

\* lines 165-172: run returns once the game is decided
run_returns_never(st) == FALSE

run_returns(st) == st # "Playing"

\* Which arm of the match takes the key event e
arm(e, cur, o) ==
    IF quit_arm(e) THEN "quit"
    ELSE IF char_arm(e, cur, o) THEN "char"
    ELSE IF undo_arm(e) THEN "undo"
    ELSE IF submit_arm(e, cur, o) THEN "submit"
    ELSE "none"

NoCase == [guess |-> <<>>, solution |-> <<>>, num_colors |-> 0,
           got |-> NoHint, want |-> NoHint]

(***************************************************************************)
(* The program                                                             *)
(***************************************************************************)
\* Opt::from_args() has parsed the command line; nothing else has run.
Init ==
    /\ opt \in Opts
    /\ pc = "main"
    /\ solution = <<>>
    /\ guesses = <<>>
    /\ hints = <<>>
    /\ current_guess = <<>>
    /\ event = NoEvent
    /\ frame = NoFrame
    /\ hint_case = NoCase
    /\ chan = <<>>
    /\ issued = <<>>
    /\ applied = <<>>

\* A main that checks the palette only
main_checks_palette_only(o) ==
    IF o.colors > Len(CODE_COLORS) THEN "error" ELSE "new"

\* main, lines 62-69: the two checks; "error" is `return Err(..)`, "new" goes
\* on to Game::new
main_checks(o) ==
    IF o.colors > Len(CODE_COLORS) THEN "error"
    ELSE IF o.no_duplicate /\ o.holes > o.colors THEN "error"
    ELSE "new"

\* main, lines 59-71
Main ==
    /\ pc = "main"
    /\ pc' = main_checks(opt)
    /\ UNCHANGED <<opt, game, event, frame, hint_case, net>>

\* Game::new, lines 105-125
New ==
    /\ pc = "new"
    /\ solution' \in new_solutions(opt)
    /\ guesses' = <<>>
    /\ hints' = <<>>
    /\ current_guess' = <<>>
    /\ pc' = "run"
    /\ UNCHANGED <<opt, event, frame, hint_case, net>>

\* Game::run up to its first rx.recv(): lines 128-142 (channel, producer
\* thread, terminal setup, first draw)
RunStart ==
    /\ pc = "run"
    /\ frame' = draw(opt, solution, guesses, hints, current_guess)
    /\ pc' = "recv"
    /\ UNCHANGED <<opt, game, event, hint_case, net>>

\* The loop comes round: draw (lines 138-140), then block in rx.recv()
Loop(gs, hs, cur) ==
    /\ frame' = draw(opt, solution, gs, hs, cur)
    /\ pc' = "recv"

\* rx.recv() returns e, which the producer thread read from the terminal
Received(e) ==
    /\ pc = "recv"
    /\ event' = e
    /\ UNCHANGED <<opt, solution, hint_case>>

\* line 142: an event that is not a key event
NotKey(e) ==
    /\ Received(e)
    /\ e.kind # "Key"
    /\ UNCHANGED <<guesses, hints, current_guess>>
    /\ Loop(guesses, hints, current_guess)

\* lines 144-146, then 179-180
Quit(e) ==
    /\ Received(e)
    /\ e.kind = "Key"
    /\ arm(e, current_guess, opt) = "quit"
    /\ pc' = "exited"
    /\ UNCHANGED <<guesses, hints, current_guess, frame>>

\* lines 147-153
CharKey(e) ==
    /\ Received(e)
    /\ e.kind = "Key"
    /\ arm(e, current_guess, opt) = "char"
    /\ current_guess' = push_color(e, current_guess, opt)
    /\ UNCHANGED <<guesses, hints>>
    /\ Loop(guesses, hints, current_guess')

\* lines 154-156
Undo(e) ==
    /\ Received(e)
    /\ e.kind = "Key"
    /\ arm(e, current_guess, opt) = "undo"
    /\ current_guess' = pop(current_guess)
    /\ UNCHANGED <<guesses, hints>>
    /\ Loop(guesses, hints, current_guess')

\* lines 157-173
Submit(e) ==
    /\ Received(e)
    /\ e.kind = "Key"
    /\ arm(e, current_guess, opt) = "submit"
    /\ LET hint == submit_hint(current_guess, solution, opt)
           gs   == Append(guesses, current_guess)
           hs   == Append(hints, hint)
           cur  == taken(current_guess)
       IN  /\ guesses' = gs
           /\ hints' = hs
           /\ current_guess' = cur
           /\ frame' = draw(opt, solution, gs, hs, cur)
           /\ pc' = IF run_returns(status_of(opt, gs, hs)) THEN "finished" ELSE "recv"

\* line 174: _ => ()
Ignored(e) ==
    /\ Received(e)
    /\ e.kind = "Key"
    /\ arm(e, current_guess, opt) = "none"
    /\ UNCHANGED <<guesses, hints, current_guess>>
    /\ Loop(guesses, hints, current_guess)

Handle(e) ==
    \/ NotKey(e)
    \/ Quit(e)
    \/ CharKey(e)
    \/ Undo(e)
    \/ Submit(e)
    \/ Ignored(e)

\* In Spec the producer thread hands each event it reads straight to
\* rx.recv(): the channel stays empty and the histories are not kept.
\* SpecChan below follows the channel event by event.
Next ==
    \/ Main
    \/ New
    \/ RunStart
    \/ \E e \in Events : NotKey(e) /\ UNCHANGED net
    \/ \E e \in Events : Quit(e) /\ UNCHANGED net
    \/ \E e \in Events : CharKey(e) /\ UNCHANGED net
    \/ \E e \in Events : Undo(e) /\ UNCHANGED net
    \/ \E e \in Events : Submit(e) /\ UNCHANGED net
    \/ \E e \in Events : Ignored(e) /\ UNCHANGED net

Spec == Init /\ [][Next]_vars

(***************************************************************************)
(* The producer thread and the channel of Game::run, src/main.rs:128-142   *)
(***************************************************************************)
\* tx.send(event) on crossbeam_channel::unbounded(): the event joins the back
send(ch, e) == Append(ch, e)

\* A channel that hands out the newest event first
recv_newest(ch) ==
    [event |-> ch[Len(ch)], rest |-> SubSeq(ch, 1, Len(ch) - 1)]

\* rx.recv() on a non-empty channel: the event at the front, and what is left
recv(ch) == [event |-> Head(ch), rest |-> Tail(ch)]

\* The session whose channel is followed: two colors, two holes, two guesses
ChanOpt == [colors |-> 2, guesses |-> 2, holes |-> 2, no_duplicate |-> FALSE]

\* The keys the user presses in it, and an event that is no key event
ChanEvents ==
    {Key("NONE", "Char", "1"), Key("NONE", "Char", "2"),
     Key("NONE", "Backspace", ""), Key("NONE", "Enter", ""), Resize}

InitChan == Init /\ opt = ChanOpt

\* lines 129-133: event::read() returns e and the thread sends it.  The
\* thread runs from its spawn in Game::run until the process ends.
Produce(e) ==
    /\ pc = "recv"
    /\ Len(issued) < MaxIssued
    /\ issued' = Append(issued, e)
    /\ chan' = send(chan, e)
    /\ UNCHANGED <<opt, pc, game, event, frame, hint_case, applied>>

\* line 142 and the match that follows: rx.recv() blocks while the channel
\* is empty, then the loop body handles the event received
Consume ==
    /\ chan # <<>>
    /\ Handle(recv(chan).event)
    /\ chan' = recv(chan).rest
    /\ applied' = Append(applied, recv(chan).event)
    /\ UNCHANGED issued

NextChan ==
    \/ Main
    \/ New
    \/ RunStart
    \/ \E e \in ChanEvents : Produce(e)
    \/ Consume

SpecChan == InitChan /\ [][NextChan]_vars

(***************************************************************************)
(* tests::hint, src/main.rs:446-462: the quickcheck property of calc_hint  *)
(***************************************************************************)
\* xs: Vec<(usize, usize)>, split into guess and solution (lines 452-453)
Pairs(len) == [1 .. len -> (0 .. MaxValue) \X (0 .. MaxValue)]

Firsts(xs) == [i \in 1 .. Len(xs) |-> xs[i][1]]
Seconds(xs) == [i \in 1 .. Len(xs) |-> xs[i][2]]

SeqMax(xs) == CHOOSE m \in {xs[i] : i \in 1 .. Len(xs)} :
                  \A i \in 1 .. Len(xs) : xs[i] <= m

InitHint ==
    /\ opt = NoOpt
    /\ pc = "test"
    /\ solution = <<>>
    /\ guesses = <<>>
    /\ hints = <<>>
    /\ current_guess = <<>>
    /\ event = NoEvent
    /\ frame = NoFrame
    /\ chan = <<>>
    /\ issued = <<>>
    /\ applied = <<>>
    /\ \E len \in 0 .. MaxLen : \E xs \in Pairs(len) :
           hint_case = [NoCase EXCEPT !.guess = Firsts(xs), !.solution = Seconds(xs)]

\* lines 448-450
TestDiscard ==
    /\ pc = "test"
    /\ hint_case.guess = <<>>
    /\ pc' = "discarded"
    /\ UNCHANGED <<opt, game, event, frame, hint_case, net>>

\* lines 452-461.  The test takes num_colors = max + 1; any larger table
\* size is a legal call too, and is tried as well.
TestHint(n) ==
    /\ pc = "test"
    /\ hint_case.guess # <<>>
    /\ n >= SeqMax(hint_case.guess \o hint_case.solution) + 1
    /\ LET got  == calc_hint(hint_case.guess, hint_case.solution, n)
           want == gnome_mastermind_checkscores(hint_case.guess, hint_case.solution)
       IN  /\ hint_case' = [hint_case EXCEPT !.num_colors = n, !.got = got, !.want = want]
           /\ pc' = IF got = want THEN "passed" ELSE "panicked"
    /\ UNCHANGED <<opt, game, event, frame, net>>

NextHint ==
    \/ TestDiscard
    \/ \E n \in 1 .. (MaxValue + 1) : TestHint(n)

SpecHint == InitHint /\ [][NextHint]_vars

(***************************************************************************)
(* Properties                                                              *)
(***************************************************************************)
IsPrefix(a, b) == Len(a) <= Len(b) /\ SubSeq(b, 1, Len(a)) = a

Last(xs) == xs[Len(xs)]

\* The game exists: Game::new has returned
Constructed == pc \in {"run", "recv", "exited", "finished"}

\* A frame has been drawn
Drawn == pc \in {"recv", "exited", "finished"}

IsDigitKey(e) == e.kind = "Key" /\ e.code = "Char" /\ to_digit(e.ch) # -1

\* Every step taken from pc = "recv" is Handle(event'): the primed event
\* is the key the step received.

\* Backspace, or Ctrl+Z
IsUndoKey(e) ==
    /\ e.kind = "Key"
    /\ \/ e.code = "Backspace"
       \/ e.modifiers = "CONTROL" /\ e.code = "Char" /\ e.ch = "z"

\* Enter, or Space
IsSubmitKey(e) ==
    /\ e.kind = "Key"
    /\ e.code = "Enter" \/ (e.code = "Char" /\ e.ch = " ")

HasRepeat(xs) == \E i, j \in 1 .. Len(xs) : i # j /\ xs[i] = xs[j]

\* C1: for every pair of equal-length, non-empty sequences over the colors
\* [0, num_colors), calc_hint returns the hint of the reference algorithm
\* gnome_mastermind_checkscores (the assert_eq! of tests::hint never fails).
C1_HintEqualsReference ==
    pc \in {"passed", "panicked"} =>
        /\ hint_case.got = hint_case.want
        /\ pc = "passed"

\* C1 witness: a pair with a repeated color that scores bulls and cows
C1_Witness ==
    /\ pc = "passed"
    /\ HasRepeat(hint_case.guess)
    /\ HasRepeat(hint_case.solution)
    /\ hint_case.got.bulls >= 1
    /\ hint_case.got.cows >= 1
    /\ hint_case.got = calc_hint(hint_case.guess, hint_case.solution, hint_case.num_colors)

\* C2: after every successful submission the status is Won if the new hint
\* has bulls = holes, otherwise Lost if the number of submitted guesses is
\* >= opt.guesses, otherwise Playing; a guess equal to the solution gives Won
\* even when it is the last guess allowed.
C2_StatusOrder ==
    [][Len(guesses') > Len(guesses) =>
        /\ status' = IF Last(hints').bulls = opt.holes THEN "Won"
                     ELSE IF Len(guesses') >= opt.guesses THEN "Lost"
                     ELSE "Playing"
        /\ Last(guesses') = solution => status' = "Won"
        /\ frame'.message = "You won!" <=> Last(guesses') = solution]_vars

\* C2 witness: the solution submitted as the last guess allowed, after a miss
C2_Witness ==
    /\ pc = "finished"
    /\ opt.guesses >= 2
    /\ Len(guesses) = opt.guesses
    /\ Last(guesses) = solution
    /\ status = "Won"

\* C3: once the status is Won or Lost, no step changes the solution, the
\* submitted guesses, the hints, the current guess or the status.
C3_TerminalIsFinal ==
    [][status # "Playing" => (game' = game /\ status' = status /\ pc' = pc)]_vars

\* C3 witness: the game was lost and run has returned
C3_Witness ==
    /\ pc = "finished"
    /\ status = "Lost"
    /\ Len(guesses) = opt.guesses
    /\ IsSubmitKey(event)

\* C4: Backspace and Ctrl+Z both remove exactly the last element of a
\* non-empty current guess, partial or full, and change nothing else; on an
\* empty current guess they change nothing.
C4_UndoRemovesLast ==
    [][(pc = "recv" /\ IsUndoKey(event')) =>
        /\ current_guess' = IF current_guess = <<>> THEN <<>>
                            ELSE SubSeq(current_guess, 1, Len(current_guess) - 1)
        /\ UNCHANGED <<solution, guesses, hints>>]_vars

C6_SubmitNeedsFullGuess ==
    [][/\ (pc = "recv" /\ IsSubmitKey(event') /\ Len(current_guess) # opt.holes) =>
            (UNCHANGED <<guesses, hints, current_guess>> /\ status' = status)
       /\ (guesses' # guesses \/ hints' # hints) =>
            (IsSubmitKey(event') /\ Len(current_guess) = opt.holes)]_vars

\* C6 witness: Enter was received with a partial, non-empty current guess
C6_Witness ==
    /\ pc = "recv"
    /\ event = Key("NONE", "Enter", "")
    /\ current_guess # <<>>
    /\ Len(current_guess) < opt.holes
    /\ guesses = <<>>

\* The colored cells of a drawn row, without the separating blanks
Cells(row) == [i \in 1 .. ((Len(row.code) + 1) \div 2) |-> row.code[2 * i - 1]]

ShowsSolution(row) ==
    Cells(row) = [i \in 1 .. Len(solution) |-> Styled(CIRCLE, CODE_COLORS[solution[i] + 1])]

ShowsNothing(row) ==
    Cells(row) = [i \in 1 .. opt.holes |-> Raw(DOT)]

FrameStatus ==
    CASE frame.message = "You won!" -> "Won"
      [] frame.message = "You lost" -> "Lost"
      [] OTHER                      -> "Playing"

\* C7: every frame drawn shows the solution in the solution row if and only
\* if the status is Won or Lost; a frame drawn while the status is Playing
\* has an empty solution row.
C7_SolutionHiddenWhilePlaying ==
    Drawn =>
        /\ FrameStatus = status
        /\ ShowsSolution(frame.solution_row) <=> status \in {"Won", "Lost"}
        /\ status = "Playing" => ShowsNothing(frame.solution_row)

\* C7 witness: a frame of a game still Playing after a submitted guess
C7_Witness ==
    /\ pc = "recv"
    /\ guesses # <<>>
    /\ current_guess # <<>>
    /\ status = "Playing"
    /\ ShowsNothing(frame.solution_row)

\* C8: whenever the state is rendered, hints is as long as guesses and
\* hints[i] is the score of guesses[i] against the solution, and the frame
\* shows each submitted guess next to that hint.
C8_HintsPairedAtRender ==
    Drawn =>
        /\ Len(hints) = Len(guesses)
        /\ \A i \in 1 .. Len(guesses) :
              /\ hints[i] = calc_hint(guesses[i], solution, opt.colors)
              /\ hints[i] = gnome_mastermind_checkscores(guesses[i], solution)
              /\ frame.rows[i] = draw_row(opt, guesses[i], hints[i])

\* C8 witness: the final frame of a game of two guesses, the first with cows
C8_Witness ==
    /\ pc = "finished"
    /\ Len(guesses) = 2
    /\ hints[1].cows >= 1
    /\ frame.rows[2] = draw_row(opt, guesses[2], hints[2])

\* C9: once the game is constructed, the current guess has at most
\* opt.holes elements, the solution and every submitted guess have exactly
\* opt.holes, and all their elements are colors in [0, opt.colors).
C9_SequencesWellFormed ==
    Constructed =>
        /\ Len(current_guess) \in 0 .. opt.holes
        /\ \A i \in 1 .. Len(current_guess) : current_guess[i] \in Colors(opt.colors)
        /\ Len(solution) = opt.holes
        /\ \A i \in 1 .. Len(solution) : solution[i] \in Colors(opt.colors)
        /\ \A k \in 1 .. Len(guesses) :
              /\ Len(guesses[k]) = opt.holes
              /\ \A i \in 1 .. Len(guesses[k]) : guesses[k][i] \in Colors(opt.colors)

\* C9 witness: a full current guess of several colors after a submitted guess
C9_Witness ==
    /\ pc = "recv"
    /\ opt.holes >= 2
    /\ Len(current_guess) = opt.holes
    /\ current_guess[1] # current_guess[2]
    /\ guesses # <<>>
    /\ IsDigitKey(event)

\* C10: every command leaves the solution unchanged and the submitted
\* guesses and hints as prefixes of the new ones; a submission appends
\* exactly the former current guess and one hint and empties the current
\* guess; appending a color or removing the last one leaves guesses and
\* hints unchanged.
C10_HistoryAppendOnly ==
    [][pc = "recv" =>
        /\ solution' = solution
        /\ IsPrefix(guesses, guesses')
        /\ IsPrefix(hints, hints')
        /\ (IsSubmitKey(event') /\ Len(current_guess) = opt.holes) =>
              /\ guesses' = Append(guesses, current_guess)
              /\ Len(hints') = Len(hints) + 1
              /\ current_guess' = <<>>
        /\ (IsDigitKey(event') \/ IsUndoKey(event')) =>
              UNCHANGED <<guesses, hints>>]_vars

\* C10 witness: a second, different guess was appended behind the first
C10_Witness ==
    /\ status = "Lost"
    /\ opt.holes >= 2
    /\ Len(guesses) = 2
    /\ Len(hints) = 2
    /\ guesses[1] # guesses[2]
    /\ current_guess = <<>>
    /\ IsSubmitKey(event)

\* C11: the events the producer thread read are received by the loop in the
\* order they were read, one at a time, none lost, duplicated or reordered:
\* in every interleaving the events read are the events received followed
\* by the events still in the channel, and the loop has just handled the
\* last event received.
C11_ChannelIsFifo ==
    /\ issued = applied \o chan
    /\ applied # <<>> => event = Last(applied)
    /\ applied = <<>> => event = NoEvent

\* C11 witness: two different events were handled while two different
\* events wait in the channel
C11_Witness ==
    /\ Len(applied) = 2
    /\ applied[1] # applied[2]
    /\ Len(chan) = 2
    /\ chan[1] # chan[2]
    /\ current_guess # <<>>

\* C12: with duplicates disallowed every sequence of opt.holes pairwise
\* distinct colors of [0, opt.colors), in every order, is a possible outcome
\* of Game::new, also when opt.colors = opt.holes.
C12_EveryOrderingPossible ==
    (pc = "new" /\ opt.no_duplicate) =>
        \A s \in Codes(opt.colors, opt.holes) :
            ~HasRepeat(s) => ENABLED (New /\ solution' = s)

\* C13: with duplicates disallowed the solution has exactly opt.holes
\* elements, all colors of [0, opt.colors), and none of them twice.
C13_NoRepeatedColor ==
    (Constructed /\ opt.no_duplicate) =>
        /\ Len(solution) = opt.holes
        /\ \A i \in 1 .. Len(solution) : solution[i] \in Colors(opt.colors)
        /\ ~HasRepeat(solution)

\* C13 witness: a solution of several colors drawn from more colors than
\* holes, whose first slot was overwritten by a later color
C13_Witness ==
    /\ pc = "recv"
    /\ opt.no_duplicate
    /\ opt.holes >= 2
    /\ opt.colors > opt.holes
    /\ solution[1] # 0

\* The configuration passes the checks the claim names
ValidOpt ==
    /\ opt.colors <= 7
    /\ opt.no_duplicate => opt.colors >= opt.holes

\* C14: a configuration with more colors than the palette (7), or with
\* duplicates forbidden and fewer colors than holes, makes main return an
\* error before Game::new is called and before any event is received; every
\* configuration that gets past main is valid.
C14_InvalidConfigRejected ==
    pc \in {"main", "error", "new", "run", "recv", "exited", "finished"} =>
        /\ Len(CODE_COLORS) = 7
        /\ ~ValidOpt => /\ pc \in {"main", "error"}
                        /\ solution = <<>>
                        /\ event = NoEvent
                        /\ frame = NoFrame
        /\ pc = "error" => ~ValidOpt
        /\ pc \notin {"main", "error"} => ValidOpt

\* C14 witness: main has rejected fewer colors than holes without duplicates
C14_Witness ==
    /\ pc = "error"
    /\ opt.no_duplicate
    /\ opt.colors < opt.holes
    /\ opt.colors <= Len(CODE_COLORS)

\* The property test has scored its pair
Scored == pc \in {"passed", "panicked"}

\* The positions at which guess and solution hold the same color
SamePositions(g, sol) == {i \in 1 .. Len(g) : g[i] = sol[i]}

\* C15: for every guess and solution of equal length over [0, num_colors),
\* bulls + cows is at most that length and bulls is the number of positions
\* at which the two hold the same color.
C15_HintBounded ==
    Scored =>
        /\ Len(hint_case.guess) = Len(hint_case.solution)
        /\ hint_case.got.bulls + hint_case.got.cows <= Len(hint_case.guess)
        /\ hint_case.got.bulls
              = Cardinality(SamePositions(hint_case.guess, hint_case.solution))
        /\ hint_case.got.cows >= 0

\* C15 witness: a pair of the full length with one bull, whose remaining
\* positions are all cows
C15_Witness ==
    /\ pc = "passed"
    /\ Len(hint_case.guess) = MaxLen
    /\ hint_case.got.bulls = 1
    /\ hint_case.got.bulls + hint_case.got.cows = MaxLen

\* C16: a sequence scored against itself gets bulls = its length, cows = 0.
C16_PerfectGuess ==
    (Scored /\ hint_case.guess = hint_case.solution) =>
        hint_case.got = Hint(Len(hint_case.solution), 0)

\* C16 witness: a sequence with a repeated color scored against itself
C16_Witness ==
    /\ pc = "passed"
    /\ hint_case.guess = hint_case.solution
    /\ Len(hint_case.guess) = MaxLen
    /\ HasRepeat(hint_case.guess)
    /\ hint_case.got.cows = 0

\* The bijections of [0, n) onto itself, for every table size tried
Bijections ==
    [n \in 1 .. (MaxValue + 1) |->
        {p \in [Colors(n) -> Colors(n)] : \A a, b \in Colors(n) : p[a] = p[b] => a = b}]

\* p applied to every element of xs
Relabel(p, xs) == [i \in 1 .. Len(xs) |-> p[xs[i]]]

\* C17: for every bijection p of [0, num_colors), scoring the relabelled
\* guess against the relabelled solution gives the hint of the original pair.
C17_RelabelInvariant ==
    Scored =>
        \A p \in Bijections[hint_case.num_colors] :
            calc_hint(Relabel(p, hint_case.guess), Relabel(p, hint_case.solution),
                      hint_case.num_colors) = hint_case.got

\* C17 witness: a scored pair over several colors with bulls and cows, so
\* that a relabelling moves every count of the tables
C17_Witness ==
    /\ pc = "passed"
    /\ hint_case.num_colors >= 3
    /\ hint_case.got.bulls >= 1
    /\ hint_case.got.cows >= 2
    /\ hint_case.guess[1] = 0

\* C18: the status of a new game is Playing, and it changes only in a step
\* that submits a full guess: appending a color, removing one, a rejected
\* submission and events that are no key events leave it as it is.  It is
\* determined by the last hint and the number of submitted guesses against
\* opt.guesses.
C18_StatusChangesOnlyOnSubmit ==
    [][/\ pc' = "run" => status' = "Playing"
       /\ (Constructed /\ status' # status) =>
             /\ pc = "recv"
             /\ IsSubmitKey(event')
             /\ Len(current_guess) = opt.holes
             /\ Len(guesses') = Len(guesses) + 1
       /\ Constructed' =>
             status' = IF hints' # <<>> /\ Last(hints').bulls = opt.holes THEN "Won"
                       ELSE IF Len(guesses') >= opt.guesses THEN "Lost"
                       ELSE "Playing"]_vars

\* C18 witness: the first of several guesses allowed filled every hole and
\* its submission turned the status from Playing to Won
C18_Witness ==
    /\ pc = "finished"
    /\ opt.guesses >= 2
    /\ opt.holes >= 2
    /\ Len(guesses) = 1
    /\ status = "Won"

\* C19: there are never more than opt.guesses submitted guesses, and once
\* opt.guesses guesses are submitted the status is Won or Lost and the loop
\* has returned, so that no further event is handled.
C19_GuessesBounded ==
    Constructed =>
        /\ Len(guesses) <= opt.guesses
        /\ Len(guesses) = opt.guesses =>
              /\ status \in {"Won", "Lost"}
              /\ pc = "finished"
              /\ ~ENABLED (\E e \in Events : Handle(e))

\* C19 witness: three guesses were allowed and all three missed
C19_Witness ==
    /\ pc = "finished"
    /\ opt.guesses = 3
    /\ Len(guesses) = 3
    /\ status = "Lost"
    /\ frame.message = "You lost"

\* C20: the status is Won exactly when there is a submitted guess and the
\* last one equals the solution; no earlier submitted guess equals the
\* solution.
C20_WonIffLastGuessIsSolution ==
    Constructed =>
        /\ status = "Won" <=> (guesses # <<>> /\ Last(guesses) = solution)
        /\ \A i \in 1 .. (Len(guesses) - 1) : guesses[i] # solution

\* C20 witness: a near miss followed by the solution
C20_Witness ==
    /\ pc = "finished"
    /\ opt.holes >= 2
    /\ Len(guesses) = 2
    /\ guesses[1] # solution
    /\ hints[1].bulls >= 1
    /\ guesses[2] = solution
    /\ status = "Won"

====
